---- MODULE Spec2Model ----
(***************************************************************************)
(* Model of the AstrBot plugin "gemini-25-image-openrouter" (src/main.py): *)
(* the draw-count limiter (_check_and_update_limit, reset_images_command,  *)
(* _save_usage_records), the two drawing handlers (pic_gen and             *)
(* figure_transform) with their await points, the delivery helper          *)
(* send_image_with_callback_api, and the commands switch_base_url and      *)
(* switch_model with the lazy load of the global config.                   *)
(***************************************************************************)
EXTENDS Integers, Sequences, FiniteSets, TLC

(***************************************************************************)
(* Bounds of the model.                                                    *)
(***************************************************************************)
MaxTicks == 3
MaxLimit == 2
MaxCalls == 3
MaxImages == 1

(***************************************************************************)
(* Program constants.                                                      *)
(***************************************************************************)
SecondsPerMinute == 60
DefaultLimit == 10
DefaultResetInterval == 1440

(***************************************************************************)
(* Python values.                                                          *)
(***************************************************************************)
None == "<None>"

\* Truth value of a str-or-None, as `if x:` / `not x` take it.
Truthy(x) == x # None /\ x # ""

\* dict.get(k, default)
Get(d, k, default) == IF k \in DOMAIN d THEN d[k] ELSE default

\* The empty dict.
EmptyDict == << >>

\* d[k] = v on a dict.
Put(d, k, v) == (k :> v) @@ d

(***************************************************************************)
(* The senders and groups of the events.                                   *)
(***************************************************************************)
Users == {"u1", "u2"}
GroupIds == {"g1"}
PrivateChat == ""

Events == [sender_id : Users, group_id : GroupIds \cup {PrivateChat}]

NoEvent == [sender_id |-> "", group_id |-> ""]

\* The events of one group: their checks share one usage record.
GroupEvents == {e \in Events : e.group_id = "g1"}

(***************************************************************************)
(* The rate_limit configurations the models start from.  A key that is     *)
(* absent from the dict is absent from the function.                       *)
(***************************************************************************)
UserEntry(uid, n) == [user_id |-> uid, limit |-> n]
GroupEntry(gid, n) == [group_id |-> gid, limit |-> n]

RateLimitChoices ==
    { \* limiting switched off, entries present
      ("enabled" :> FALSE) @@ ("user_limits" :> <<UserEntry("u1", 1)>>)
          @@ ("group_limits" :> <<GroupEntry("g1", 1)>>)
          @@ ("reset_interval_minutes" :> 1),
      \* no "enabled" key at all
      ("user_limits" :> <<UserEntry("u1", 1)>>),
      \* group limits only
      ("enabled" :> TRUE) @@ ("user_limits" :> << >>)
          @@ ("group_limits" :> <<GroupEntry("g1", MaxLimit)>>)
          @@ ("reset_interval_minutes" :> 1),
      \* an entry without "limit" and a configured default; a duplicate entry
      ("enabled" :> TRUE)
          @@ ("user_limits" :> <<[user_id |-> "u1"], UserEntry("u1", MaxLimit)>>)
          @@ ("default_limit" :> 1) @@ ("reset_interval_minutes" :> 2),
      \* an entry without "limit", no default, no interval
      ("enabled" :> TRUE) @@ ("user_limits" :> <<[user_id |-> "u2"]>>) }
    \cup
    { \* per-user limits for both users and a different per-group limit
      ("enabled" :> TRUE)
          @@ ("user_limits" :> <<UserEntry("u1", n), UserEntry("u2", MaxLimit)>>)
          @@ ("group_limits" :> <<GroupEntry("g1", 1)>>)
          @@ ("reset_interval_minutes" :> 1) : n \in 0..MaxLimit }

(***************************************************************************)
(* Messages returned by _check_and_update_limit.                           *)
(***************************************************************************)
EmptyMessage == [kind |-> "empty", n |-> 0, uid |-> ""]
DeniedMessage(limit) == [kind |-> "denied", n |-> limit, uid |-> ""]
UserMessage(uid, remaining) == [kind |-> "user_ok", n |-> remaining, uid |-> uid]
GroupMessage(remaining) == [kind |-> "group_ok", n |-> remaining, uid |-> ""]

(***************************************************************************)
(* The usage-record file.                                                  *)
(***************************************************************************)
NoFile == [state |-> "absent", content |-> EmptyDict]
WrittenFile(records) == [state |-> "written", content |-> records]
TruncatedFile == [state |-> "truncated", content |-> EmptyDict]

(***************************************************************************)
(* The handler invocations (pic_gen, figure_transform) and what they       *)
(* yield.                                                                  *)
(***************************************************************************)
\* The slots of the invocations in flight; a new invocation takes the lowest
\* free one.
Handlers == 1..2

DefaultModel == "google/gemini-2.5-flash-image-preview:free"

\* The fixed texts of the replies, as messages.
Text(kind) == [kind |-> kind, n |-> 0, uid |-> ""]
NeedImageText == Text("need_image")
FigureDoneText == Text("figure_done")
FailText(kind) == Text(kind \o "_failed")
ErrorText(kind) == Text(kind \o "_error")

\* Message components.
FileImage(path) ==
    [comp |-> "Image", src |-> "file", path |-> path, text |-> EmptyMessage]
URLImage(path) ==
    [comp |-> "Image", src |-> "url", path |-> "link:" \o path,
     text |-> EmptyMessage]
Plain(msg) == [comp |-> "Plain", src |-> "", path |-> "", text |-> msg]

\* event.plain_result, event.chain_result
PlainResult(msg) == [type |-> "plain", text |-> msg, chain |-> << >>]
ChainResult(chain) == [type |-> "chain", text |-> EmptyMessage, chain |-> chain]

\* What generate_image_openrouter does: raise, or return (image_url, image_path).
ImageUrl == "https://img/1.png"
LocalPath == "/data/1.png"
NoGen == [state |-> "none", url |-> None, path |-> None]
GenOutcomes ==
    {[state |-> "raised", url |-> None, path |-> None]}
    \cup {[state |-> "returned", url |-> u, path |-> p] :
              u \in {"", ImageUrl}, p \in {None, LocalPath}}

\* Generation raises or returns an image.
ImageOutcomes ==
    {o \in GenOutcomes : o.state = "raised" \/ (o.url # "" /\ o.path # None)}

\* The path send_file returns for the file it transferred.
RemotePath(path) == "nap:" \o path

\* What image_component.convert_to_web_link() does: return ("") or raise.
LinkOutcomes == {"", "IOError", "ConnectionError", "TimeoutError", "ValueError"}

\* An invocation that has not started.
Idle ==
    [pc |-> "idle", kind |-> "", message |-> EmptyMessage, pending |-> 0,
     input_images |-> 0, gen |-> NoGen, image_path |-> None,
     send_file_calls |-> 0, delivered |-> None, link |-> "none",
     failed_at |-> "", replies |-> << >>, raised |-> FALSE,
     arg |-> None, save |-> FALSE, plugin_config |-> EmptyDict]

\* The deployments the handler model starts from: rate_limit, the host's
\* callback_api_base, nap_server_address and the global store.
HandlerRateLimit ==
    ("enabled" :> TRUE) @@ ("user_limits" :> <<UserEntry("u1", 1)>>)
        @@ ("group_limits" :> <<GroupEntry("g1", MaxLimit)>>)
        @@ ("reset_interval_minutes" :> 1)

StoredSettings ==
    ("custom_api_base" :> "https://proxy/v1") @@ ("model_name" :> "other-model")

Deployments ==
    { [rate_limit |-> HandlerRateLimit, nap |-> None, callback |-> None,
       store |-> EmptyDict],
      [rate_limit |-> HandlerRateLimit, nap |-> "192.168.1.2",
       callback |-> "http://bot:6185", store |-> StoredSettings],
      [rate_limit |-> ("enabled" :> FALSE), nap |-> "localhost",
       callback |-> "http://bot:6185", store |-> EmptyDict],
      [rate_limit |-> ("enabled" :> FALSE), nap |-> "192.168.1.2",
       callback |-> "", store |-> StoredSettings],
      [rate_limit |-> ("enabled" :> FALSE), nap |-> "", callback |-> None,
       store |-> EmptyDict] }

VARIABLES
    rate_limit_config,      \* self.rate_limit_config
    nap_server_address,     \* self.nap_server_address
    callback_api_base,      \* context.get_config()["callback_api_base"]
    dispatch,               \* how many handler invocations the host runs at a time
    usage_records,          \* self.usage_records
    file,                   \* the file at self.usage_records_path
    now,                    \* datetime.now().timestamp(), in seconds
    global_config_loaded,   \* self._global_config_loaded
    custom_api_base,        \* self.custom_api_base
    model_name,             \* self.model_name
    global_store,           \* sp's entry "gemini-25-image-openrouter"
    switched,               \* the fields a switch command has assigned
    inv,                    \* the handler invocations in flight
    last,                   \* the latest call of _check_and_update_limit on its
                            \* own: its event, its locals and result, and op:
                            \*   "none"    no such call yet
                            \*   "check"   called, no reset since the first call
                            \*   "reset"   reset_images_command ran after it
                            \*   "recheck" called after a reset
    ncalls,                 \* such calls per sender
    window                  \* per record key: the checks of its current window

vars == <<rate_limit_config, nap_server_address, callback_api_base, dispatch,
          usage_records, file, now, global_config_loaded, custom_api_base,
          model_name, global_store, switched, inv, last, ncalls, window>>

\* The plugin's configuration, fixed at construction.
config == <<rate_limit_config, nap_server_address, callback_api_base, dispatch>>

\* The fields and the store that _load_global_config and the switch
\* commands touch, with the record of the fields the commands assigned.
settings ==
    <<global_config_loaded, custom_api_base, model_name, global_store, switched>>

(***************************************************************************)
(* _check_and_update_limit                                                 *)
(***************************************************************************)

\* next((item for item in items if item.get(field) == id), None):
\* the index of the first matching entry, 0 for None.
FirstMatch(items, field, id) ==
    LET hits == {i \in 1..Len(items) : Get(items[i], field, None) = id}
    IN IF hits = {} THEN 0 ELSE CHOOSE i \in hits : \A j \in hits : i <= j

\* limit and limit_type as lines 104-124 leave them.
ResolveLimitGroupFirst(cfg, e) ==
    LET default == Get(cfg, "default_limit", DefaultLimit)
        user_limits == Get(cfg, "user_limits", << >>)
        ui == FirstMatch(user_limits, "user_id", e.sender_id)
        group_limits == Get(cfg, "group_limits", << >>)
        gi == FirstMatch(group_limits, "group_id", e.group_id)
    IN IF Truthy(e.group_id) /\ gi # 0
       THEN [limit |-> Get(group_limits[gi], "limit", default),
             limit_type |-> "group"]
       ELSE IF ui # 0
            THEN [limit |-> Get(user_limits[ui], "limit", default),
                  limit_type |-> "user"]
            ELSE [limit |-> -1, limit_type |-> None]

ResolveLimit(cfg, e) ==
    LET default == Get(cfg, "default_limit", DefaultLimit)
        user_limits == Get(cfg, "user_limits", << >>)
        ui == FirstMatch(user_limits, "user_id", e.sender_id)
        group_limits == Get(cfg, "group_limits", << >>)
        gi == FirstMatch(group_limits, "group_id", e.group_id)
    IN IF ui # 0
       THEN [limit |-> Get(user_limits[ui], "limit", default), limit_type |-> "user"]
       ELSE IF Truthy(e.group_id) /\ gi # 0
            THEN [limit |-> Get(group_limits[gi], "limit", default),
                  limit_type |-> "group"]
            ELSE [limit |-> -1, limit_type |-> None]

\* self.rate_limit_config.get("enabled", False)
EnabledByDefault(cfg) == Get(cfg, "enabled", TRUE)

Enabled(cfg) == Get(cfg, "enabled", FALSE)

\* A record key that is always the sender's.
RecordKeyBySender(e) == "user_" \o e.sender_id

\* record_key
RecordKey(e) ==
    IF Truthy(e.group_id) THEN "group_" \o e.group_id ELSE "user_" \o e.sender_id

\* time_since_last_draw > reset_interval, with
\* time_since_last_draw = (current_timestamp - timestamp) / 60 a true division.
ExpiredAtInterval(current, timestamp, interval) ==
    (current - timestamp) >= interval * SecondsPerMinute

Expired(current, timestamp, interval) ==
    (current - timestamp) > interval * SecondsPerMinute

\* A limit test that lets one draw too many through.
AtLimitStrict(count, limit) == count > limit

\* user_record["count"] >= limit
AtLimit(count, limit) == count >= limit

\* user_record["count"] += 1
IncrementLost(count) == count

Increment(count) == count + 1

\* The record the limit check is applied to (lines 133-137).
RecordToCheck(records, key, current, interval) ==
    LET fresh == [timestamp |-> current, count |-> 0]
        user_record == Get(records, key, fresh)
    IN IF Expired(current, Get(user_record, "timestamp", 0), interval)
       THEN fresh ELSE user_record

Unlimited(records) ==
    [can_draw |-> TRUE, message |-> EmptyMessage, records |-> records,
     saved |-> FALSE, limit |-> -1, limit_type |-> None]

\* The whole call: the returned pair, the records it leaves and whether it
\* called _save_usage_records.
Check(cfg, records, e, current) ==
    IF ~Enabled(cfg) THEN Unlimited(records)
    ELSE LET r == ResolveLimit(cfg, e) IN
         IF r.limit_type = None THEN Unlimited(records)
         ELSE LET key == RecordKey(e)
                  interval == Get(cfg, "reset_interval_minutes", DefaultResetInterval)
                  user_record == RecordToCheck(records, key, current, interval)
                  count == Increment(user_record.count)
              IN IF AtLimit(user_record.count, r.limit)
                 THEN [can_draw |-> FALSE, message |-> DeniedMessage(r.limit),
                       records |-> records, saved |-> FALSE,
                       limit |-> r.limit, limit_type |-> r.limit_type]
                 ELSE [can_draw |-> TRUE,
                       message |-> IF r.limit_type = "user"
                                   THEN UserMessage(e.sender_id, r.limit - count)
                                   ELSE GroupMessage(r.limit - count),
                       records |-> Put(records, key,
                                       [timestamp |-> current, count |-> count]),
                       saved |-> TRUE,
                       limit |-> r.limit, limit_type |-> r.limit_type]

\* _save_usage_records that writes nothing.
SaveSkipped(records, ok) == file' = file

\* _save_usage_records: json.dump of the records into the file opened "w";
\* a failure is logged and swallowed, and leaves the file as it was (open
\* failed) or truncated (the dump failed).
SaveUsageRecords(records, ok) ==
    IF ok THEN file' = WrittenFile(records)
    ELSE file' \in {file, TruncatedFile}

\* The checks made on a record key since its count last started from zero:
\* how many were permitted, and the limits the checks applied.
NoWindow == [permitted |-> 0, limits |-> {}]

WindowAfter(e, c) ==
    LET key == RecordKey(e)
        interval == Get(rate_limit_config, "reset_interval_minutes",
                        DefaultResetInterval)
        started == key \notin DOMAIN usage_records
                   \/ (c.can_draw /\ now - usage_records[key].timestamp
                                         > interval * SecondsPerMinute)
        w == IF started THEN NoWindow ELSE Get(window, key, NoWindow)
    IN IF c.limit_type = None THEN window
       ELSE Put(window, key,
                [permitted |-> w.permitted + (IF c.can_draw THEN 1 ELSE 0),
                 limits |-> w.limits \cup {c.limit}])

\* A check that refreshes the timestamp of the record it denies.
DoCheckStampsDenied(e, ok) ==
    LET c == Check(rate_limit_config, usage_records, e, now)
        key == RecordKey(e)
        stamped == IF ~c.can_draw /\ key \in DOMAIN usage_records
                   THEN Put(usage_records, key,
                            [usage_records[key] EXCEPT !.timestamp = now])
                   ELSE c.records
    IN /\ usage_records' = stamped
       /\ IF c.saved THEN SaveUsageRecords(c.records, ok)
          ELSE ok /\ file' = file
       /\ window' = WindowAfter(e, c)

\* A check that takes its increment back when the write fails.
DoCheckRollsBack(e, ok) ==
    LET c == Check(rate_limit_config, usage_records, e, now) IN
    /\ usage_records' = IF c.saved /\ ~ok THEN usage_records ELSE c.records
    /\ IF c.saved THEN SaveUsageRecords(c.records, ok)
       ELSE ok /\ file' = file
    /\ window' = IF c.saved /\ ~ok THEN window ELSE WindowAfter(e, c)

\* One call of _check_and_update_limit(event); it holds no await, so it is
\* one step wherever it is called.
DoCheck(e, ok) ==
    LET c == Check(rate_limit_config, usage_records, e, now) IN
    /\ usage_records' = c.records
    /\ IF c.saved THEN SaveUsageRecords(c.records, ok)
       ELSE ok /\ file' = file
    /\ window' = WindowAfter(e, c)

\* The method called on its own, at most MaxCalls times per sender; last
\* keeps what the call did.
CheckAndUpdateLimit(e, ok) ==
    /\ ncalls[e.sender_id] < MaxCalls
    /\ ncalls' = [ncalls EXCEPT ![e.sender_id] = @ + 1]
    /\ DoCheck(e, ok)
    /\ LET c == Check(rate_limit_config, usage_records, e, now)
       IN last' = [op |-> IF last.op \in {"none", "check"} THEN "check"
                          ELSE "recheck",
                   event |-> e, can_draw |-> c.can_draw,
                   message |-> c.message, limit |-> c.limit,
                   limit_type |-> c.limit_type, saved |-> c.saved]
    /\ UNCHANGED <<config, settings, inv, now>>

\* reset_images_command
ResetKeepsRecords(ok) ==
    /\ usage_records' = usage_records
    /\ SaveUsageRecords(usage_records, ok)
    /\ window' = window
    /\ last' = IF last.op = "none" THEN last ELSE [last EXCEPT !.op = "reset"]
    /\ UNCHANGED <<config, settings, inv, now, ncalls>>

ResetImagesCommand(ok) ==
    /\ usage_records' = EmptyDict
    /\ SaveUsageRecords(EmptyDict, ok)
    /\ window' = EmptyDict
    /\ last' = IF last.op = "none" THEN last ELSE [last EXCEPT !.op = "reset"]
    /\ UNCHANGED <<config, settings, inv, now, ncalls>>

\* The clock read by datetime.now() moves on.
Tick ==
    /\ now + SecondsPerMinute \div 2 <= MaxTicks * (SecondsPerMinute \div 2)
    /\ now' = now + SecondsPerMinute \div 2
    /\ UNCHANGED <<config, settings, inv, usage_records, file, last, ncalls,
                   window>>

(***************************************************************************)
(* pic_gen and figure_transform, one step per stretch between awaits that  *)
(* suspend.                                                                *)
(***************************************************************************)
Reply(r, result) == [r EXCEPT !.replies = Append(@, result)]

Done(r) == [r EXCEPT !.pc = "done"]

\* except Exception (lines 268-270, 412-414) around the call at `site`.
HandlerCatchesGenerationOnly(site) == site = "generate"

HandlerCatches(site) == site \in {"generate", "send_file", "web_link"}

\* An exception raised by the call at `site` inside the handler's try.
Fail(r, site) ==
    IF HandlerCatches(site)
    THEN Done(Reply([r EXCEPT !.failed_at = site], PlainResult(ErrorText(r.kind))))
    ELSE [r EXCEPT !.pc = "done", !.failed_at = site, !.raised = TRUE]

\* A figure_transform that generates without a reference image.
AfterConvertAlwaysGenerates(r) == [r EXCEPT !.pc = "generate"]

\* Lines 366-368, then the call of generate_image_openrouter.
AfterConvert(r) ==
    IF r.kind = "figure_transform" /\ r.input_images = 0
    THEN Done(Reply(r, PlainResult(NeedImageText)))
    ELSE [r EXCEPT !.pc = "generate"]

\* Lines 228-248 and 350-365 up to the first convert_to_base64.
AfterLoad(r) == IF r.pending > 0 THEN [r EXCEPT !.pc = "convert"] ELSE AfterConvert(r)

\* The chain yielded with the image (lines 265, 409).
Chain(r, image) ==
    LET tail == IF r.message # EmptyMessage THEN <<Plain(r.message)>> ELSE << >>
    IN IF r.kind = "pic_gen" THEN <<image>> \o tail
       ELSE <<Plain(FigureDoneText), image>> \o tail

\* send_image_with_callback_api(path) up to its await, and the yield after
\* it when it returns at once (lines 166-169).
Deliver(r, path, cb) ==
    LET r1 == [r EXCEPT !.delivered = path]
    IN IF ~Truthy(cb)
       THEN Done(Reply(r1, ChainResult(Chain(r1, FileImage(path)))))
       ELSE [r1 EXCEPT !.pc = "web_link"]

\* The except clauses of send_image_with_callback_api (lines 177-185);
\* ConnectionError and TimeoutError are subclasses of OSError, IOError is
\* OSError.
IsOSError(exc) == exc \in {"IOError", "OSError", "ConnectionError", "TimeoutError"}

CallbackCatchesOSErrorOnly(exc) == IsOSError(exc)

CallbackCatches(exc) ==
    \/ IsOSError(exc)
    \/ exc \in {"ConnectionError", "TimeoutError"}
    \/ exc \in LinkOutcomes \ {""}

\* if self.nap_server_address and self.nap_server_address != "localhost"
NapRemoteIfSet(addr) == Truthy(addr)

NapRemote(addr) == Truthy(addr) /\ addr # "localhost"

\* if not image_url or not image_path
EmptyResultBoth(url, path) == ~Truthy(url) /\ ~Truthy(path)

EmptyResult(url, path) == ~Truthy(url) \/ ~Truthy(path)

\* Lines 251-264 / 395-408 from the return of generate_image_openrouter.
AfterGenerate(r, out, nap, cb) ==
    LET r1 == [r EXCEPT !.gen = out]
    IN IF out.state = "raised" THEN Fail(r1, "generate")
       ELSE IF EmptyResult(out.url, out.path)
            THEN Done(Reply(r1, PlainResult(FailText(r.kind))))
            ELSE IF NapRemote(nap)
                 THEN [r1 EXCEPT !.pc = "send_file", !.image_path = out.path,
                                 !.send_file_calls = @ + 1]
                 ELSE Deliver([r1 EXCEPT !.image_path = out.path], out.path, cb)

\* Lines 262-264 / 406-408 from the return of send_file.
AfterSendFile(r, ok, cb) ==
    IF ~ok THEN Fail(r, "send_file")
    ELSE Deliver([r EXCEPT !.image_path = RemotePath(r.image_path)],
                 RemotePath(r.image_path), cb)

\* Lines 174-185 from the return of convert_to_web_link, and the yield.
AfterWebLink(r, exc) ==
    LET r1 == [r EXCEPT !.link = IF exc = "" THEN "ok" ELSE exc]
    IN IF exc = ""
       THEN Done(Reply(r1, ChainResult(Chain(r1, URLImage(r.delivered)))))
       ELSE IF CallbackCatches(exc)
            THEN Done(Reply(r1, ChainResult(Chain(r1, FileImage(r.delivered)))))
            ELSE Fail(r1, "web_link")

\* A handler that goes on after a denial.
BeginIgnoresDenial(h, kind, e, images, ok) ==
    /\ inv[h].pc = "idle"
    /\ \A g \in Handlers : g < h => inv[g].pc # "idle"
    /\ Cardinality({g \in Handlers : inv[g].pc # "idle"}) < dispatch
    /\ DoCheck(e, ok)
    /\ LET c == Check(rate_limit_config, usage_records, e, now)
           r == [Idle EXCEPT !.kind = kind, !.message = c.message,
                             !.pending = images]
       IN inv' = [inv EXCEPT ![h] =
                      IF global_config_loaded THEN AfterLoad(r)
                      ELSE [r EXCEPT !.pc = "global_get"]]
    /\ UNCHANGED <<config, settings, now, last, ncalls>>

\* A handler is invoked: the limit check, the denial reply, and on to the
\* first await that suspends.
Begin(h, kind, e, images, ok) ==
    /\ inv[h].pc = "idle"
    /\ \A g \in Handlers : g < h => inv[g].pc # "idle"
    /\ Cardinality({g \in Handlers : inv[g].pc # "idle"}) < dispatch
    /\ DoCheck(e, ok)
    /\ LET c == Check(rate_limit_config, usage_records, e, now)
           r == [Idle EXCEPT !.kind = kind, !.message = c.message,
                             !.pending = images]
       IN inv' = [inv EXCEPT ![h] =
                      IF ~c.can_draw
                      THEN Done(Reply(r, PlainResult(c.message)))
                      ELSE IF global_config_loaded THEN AfterLoad(r)
                           ELSE [r EXCEPT !.pc = "global_get"]]
    /\ UNCHANGED <<config, settings, now, last, ncalls>>

\* pic_gen(event, image_description, use_reference_images), the event
\* holding `images` Image components in its message and quoted reply.
PicGen(h, e, images, use_reference_images, ok) ==
    Begin(h, "pic_gen", e, IF use_reference_images THEN images ELSE 0, ok)

\* figure_transform(event)
FigureTransform(h, e, images, ok) == Begin(h, "figure_transform", e, images, ok)

\* _load_global_config from the return of sp.global_get (lines 52-62).
GlobalGetReturn(h, raised) ==
    /\ inv[h].pc = "global_get"
    /\ IF raised THEN UNCHANGED <<custom_api_base, model_name>>
       ELSE /\ custom_api_base' = Get(global_store, "custom_api_base", custom_api_base)
            /\ model_name' = Get(global_store, "model_name", model_name)
    /\ global_config_loaded' = TRUE
    /\ inv' = [inv EXCEPT ![h] = AfterLoad(@)]
    /\ UNCHANGED <<config, global_store, switched, usage_records, file, now,
                   last, ncalls, window>>

\* One convert_to_base64 returns or raises (lines 233-243, 354-364).
ConvertReturn(h, ok) ==
    /\ inv[h].pc = "convert"
    /\ LET r == [inv[h] EXCEPT !.pending = @ - 1,
                               !.input_images = IF ok THEN @ + 1 ELSE @]
       IN inv' = [inv EXCEPT ![h] = IF r.pending > 0 THEN r ELSE AfterConvert(r)]
    /\ UNCHANGED <<config, settings, usage_records, file, now, last, ncalls,
                   window>>

\* A generation that gives the draw back when it produced no image.
GenerateReturnRefunds(h, out) ==
    /\ inv[h].pc = "generate"
    /\ inv' = [inv EXCEPT ![h] =
                   AfterGenerate(@, out, nap_server_address, callback_api_base)]
    /\ usage_records' =
           IF out.state = "raised" \/ EmptyResult(out.url, out.path)
           THEN [k \in DOMAIN usage_records |->
                     [usage_records[k] EXCEPT !.count = @ - 1]]
           ELSE usage_records
    /\ UNCHANGED <<config, settings, file, now, last, ncalls, window>>

\* generate_image_openrouter returns or raises.
GenerateReturn(h, out) ==
    /\ inv[h].pc = "generate"
    /\ inv' = [inv EXCEPT ![h] =
                   AfterGenerate(@, out, nap_server_address, callback_api_base)]
    /\ UNCHANGED <<config, settings, usage_records, file, now, last, ncalls,
                   window>>

\* send_file returns or raises.
SendFileReturn(h, ok) ==
    /\ inv[h].pc = "send_file"
    /\ inv' = [inv EXCEPT ![h] = AfterSendFile(@, ok, callback_api_base)]
    /\ UNCHANGED <<config, settings, usage_records, file, now, last, ncalls,
                   window>>

\* convert_to_web_link returns or raises.
WebLinkReturn(h, exc) ==
    /\ inv[h].pc = "web_link"
    /\ inv' = [inv EXCEPT ![h] = AfterWebLink(@, exc)]
    /\ UNCHANGED <<config, settings, usage_records, file, now, last, ncalls,
                   window>>

\* The generator is exhausted: the invocation is over.
Finish(h) ==
    /\ inv[h].pc = "done"
    /\ inv' = [inv EXCEPT ![h] = Idle]
    /\ UNCHANGED <<config, settings, usage_records, file, now, last, ncalls,
                   window>>

(***************************************************************************)
(* switch_base_url and switch_model (/banana baseurl, /banana model), one  *)
(* step per stretch between awaits that suspend.                           *)
(***************************************************************************)
SwitchKinds == {"switch_base_url", "switch_model"}

\* The field a command assigns, which is also its key in the global store.
SettingKey(kind) ==
    IF kind = "switch_base_url" THEN "custom_api_base" ELSE "model_name"

\* The values the commands are called with: None for an omitted argument.
Words == {"https://alt/v1", "alt-model"}
Padded(word) == " " \o word \o " "
NewBaseUrls == {None, "https://alt/v1", Padded("https://alt/v1")}
NewModels == {"", "alt-model"}

\* str.strip()
Strip(s) ==
    IF \E w \in Words : s = Padded(w)
    THEN CHOOSE w \in Words : s = Padded(w) ELSE s

\* str.lower(), and the test of save_global (lines 296, 328).
SaveFlags == {"false", "TRUE", "y"}
Lower(s) == IF s = "TRUE" THEN "true" ELSE s
SavesGlobally(save_global) == Lower(save_global) \in {"true", "1", "yes", "y"}

\* The replies of the commands.
SwitchText(kind, what) == Text(kind \o "_" \o what)

\* Lines 289-306 / 322-338 up to the await of sp.global_get, on the values
\* the fields have once _load_global_config has returned: the invocation,
\* the two fields, and the fields the command assigned.
SwitchAssign(r, base, model) ==
    IF ~Truthy(r.arg)
    THEN [inv |-> Done(Reply(r, PlainResult(SwitchText(r.kind, "shown")))),
          custom_api_base |-> base, model_name |-> model, assigned |-> {}]
    ELSE [inv |-> IF r.save THEN [r EXCEPT !.pc = "store_get"]
                  ELSE Done(Reply(r, PlainResult(SwitchText(r.kind, "temporary")))),
          custom_api_base |-> IF r.kind = "switch_base_url" THEN Strip(r.arg)
                              ELSE base,
          model_name |-> IF r.kind = "switch_model" THEN Strip(r.arg)
                         ELSE model,
          assigned |-> {SettingKey(r.kind)}]

\* A command is invoked: _load_global_config up to its await, or, with the
\* global config already loaded, on to the assignment.
SwitchCommand(h, kind, new, save_global) ==
    /\ inv[h].pc = "idle"
    /\ \A g \in Handlers : g < h => inv[g].pc # "idle"
    /\ Cardinality({g \in Handlers : inv[g].pc # "idle"}) < dispatch
    /\ LET r == [Idle EXCEPT !.kind = kind, !.arg = new,
                             !.save = SavesGlobally(save_global)]
           s == SwitchAssign(r, custom_api_base, model_name)
       IN IF global_config_loaded
          THEN /\ inv' = [inv EXCEPT ![h] = s.inv]
               /\ custom_api_base' = s.custom_api_base
               /\ model_name' = s.model_name
               /\ switched' = switched \cup s.assigned
               /\ UNCHANGED <<global_config_loaded, global_store>>
          ELSE /\ inv' = [inv EXCEPT ![h] = [r EXCEPT !.pc = "switch_load"]]
               /\ UNCHANGED settings
    /\ UNCHANGED <<config, usage_records, file, now, last, ncalls, window>>

\* switch_base_url(event, new_base_url, save_global)
SwitchBaseUrl(h, new_base_url, save_global) ==
    SwitchCommand(h, "switch_base_url", new_base_url, save_global)

\* switch_model(event, new_model, save_global)
SwitchModel(h, new_model, save_global) ==
    SwitchCommand(h, "switch_model", new_model, save_global)

\* sp.global_get returns or raises inside the command's _load_global_config
\* (lines 52-62), and the command goes on to its assignment.
SwitchLoadReturn(h, raised) ==
    /\ inv[h].pc = "switch_load"
    /\ LET base == IF raised THEN custom_api_base
                   ELSE Get(global_store, "custom_api_base", custom_api_base)
           model == IF raised THEN model_name
                    ELSE Get(global_store, "model_name", model_name)
           s == SwitchAssign(inv[h], base, model)
       IN /\ inv' = [inv EXCEPT ![h] = s.inv]
          /\ custom_api_base' = s.custom_api_base
          /\ model_name' = s.model_name
          /\ switched' = switched \cup s.assigned
    /\ global_config_loaded' = TRUE
    /\ UNCHANGED <<config, global_store, usage_records, file, now, last,
                   ncalls, window>>

\* The value of the field a command assigns, as the command reads it back.
CurrentSetting(kind) ==
    IF kind = "switch_base_url" THEN custom_api_base ELSE model_name

\* sp.global_get returns a copy of the stored entry, or raises (lines
\* 298-299 / 330-331, and the except branch).
StoreGetReturnFresh(h, raised) ==
    /\ inv[h].pc = "store_get"
    /\ inv' = [inv EXCEPT ![h] =
                   IF raised
                   THEN Done(Reply(@, PlainResult(SwitchText(@.kind, "save_failed"))))
                   ELSE [@ EXCEPT !.pc = "store_put",
                                  !.plugin_config =
                                      Put(EmptyDict, SettingKey(inv[h].kind),
                                          CurrentSetting(inv[h].kind))]]
    /\ UNCHANGED <<config, settings, usage_records, file, now, last, ncalls,
                   window>>

StoreGetReturn(h, raised) ==
    /\ inv[h].pc = "store_get"
    /\ inv' = [inv EXCEPT ![h] =
                   IF raised
                   THEN Done(Reply(@, PlainResult(SwitchText(@.kind, "save_failed"))))
                   ELSE [@ EXCEPT !.pc = "store_put",
                                  !.plugin_config =
                                      Put(global_store, SettingKey(inv[h].kind),
                                          CurrentSetting(inv[h].kind))]]
    /\ UNCHANGED <<config, settings, usage_records, file, now, last, ncalls,
                   window>>

\* sp.global_put stores plugin_config, or raises (lines 300-304 / 332-336).
StorePutReturn(h, raised) ==
    /\ inv[h].pc = "store_put"
    /\ global_store' = IF raised THEN global_store ELSE inv[h].plugin_config
    /\ inv' = [inv EXCEPT ![h] =
                   Done(Reply(@, PlainResult(SwitchText(@.kind,
                       IF raised THEN "save_failed" ELSE "saved"))))]
    /\ UNCHANGED <<config, global_config_loaded, custom_api_base, model_name,
                   switched, usage_records, file, now, last, ncalls, window>>

NoCall ==
    [op |-> "none", event |-> NoEvent, can_draw |-> TRUE,
     message |-> EmptyMessage, limit |-> -1, limit_type |-> None,
     saved |-> FALSE]

\* The state __init__ leaves when no record file exists.
InitCommon ==
    /\ usage_records = EmptyDict
    /\ file = NoFile
    /\ now = 0
    /\ global_config_loaded = FALSE
    /\ custom_api_base = ""
    /\ model_name = DefaultModel
    /\ switched = {}
    /\ inv = [h \in Handlers |-> Idle]
    /\ last = NoCall
    /\ ncalls = [u \in Users |-> 0]
    /\ window = EmptyDict

InitLimiter ==
    /\ rate_limit_config \in RateLimitChoices
    /\ nap_server_address = None
    /\ callback_api_base = None
    /\ dispatch = 1
    /\ global_store = EmptyDict
    /\ InitCommon

NextLimiter ==
    \/ \E e \in Events : CheckAndUpdateLimit(e, TRUE)
    \/ ResetImagesCommand(TRUE)
    \/ Tick

SpecLimiter == InitLimiter /\ [][NextLimiter]_vars

(***************************************************************************)
(* The limiter with a record file whose writes can fail; the events come   *)
(* from one group.                                                         *)
(***************************************************************************)
InitPersistence ==
    /\ rate_limit_config = HandlerRateLimit
    /\ nap_server_address = None
    /\ callback_api_base = None
    /\ dispatch = 1
    /\ global_store = EmptyDict
    /\ InitCommon

NextPersistence ==
    \/ \E e \in GroupEvents, ok \in BOOLEAN : CheckAndUpdateLimit(e, ok)
    \/ \E ok \in BOOLEAN : ResetImagesCommand(ok)
    \/ Tick

SpecPersistence == InitPersistence /\ [][NextPersistence]_vars

(***************************************************************************)
(* The handlers, one invocation at a time (the host's sequential           *)
(* dispatch), with every outcome of the collaborators.                     *)
(***************************************************************************)
InitHandlers ==
    /\ \E d \in Deployments :
           /\ rate_limit_config = d.rate_limit
           /\ nap_server_address = d.nap
           /\ callback_api_base = d.callback
           /\ global_store = d.store
    /\ dispatch = 1
    /\ InitCommon

NextHandlers ==
    \/ \E h \in Handlers, e \in Events, n \in 0..MaxImages, u \in BOOLEAN :
           PicGen(h, e, n, u, TRUE)
    \/ \E h \in Handlers, e \in Events, n \in 0..MaxImages :
           FigureTransform(h, e, n, TRUE)
    \/ \E h \in Handlers, raised \in BOOLEAN : GlobalGetReturn(h, raised)
    \/ \E h \in Handlers, ok \in BOOLEAN : ConvertReturn(h, ok)
    \/ \E h \in Handlers, out \in GenOutcomes : GenerateReturn(h, out)
    \/ \E h \in Handlers, ok \in BOOLEAN : SendFileReturn(h, ok)
    \/ \E h \in Handlers, exc \in LinkOutcomes : WebLinkReturn(h, exc)
    \/ \E h \in Handlers : Finish(h)
    \/ ResetImagesCommand(TRUE)
    \/ Tick

SpecHandlers == InitHandlers /\ [][NextHandlers]_vars

(***************************************************************************)
(* The handlers with as many invocations in flight as there are slots,     *)
(* interleaved at their await points.  The deployment has no nap server    *)
(* and no callback_api_base, so delivery follows generation in the same    *)
(* step and send_file and convert_to_web_link are never awaited; all       *)
(* events come from one group and share its usage record.                  *)
(***************************************************************************)
InitConcurrent ==
    /\ rate_limit_config = HandlerRateLimit
    /\ nap_server_address = None
    /\ callback_api_base = None
    /\ global_store = StoredSettings
    /\ dispatch = Cardinality(Handlers)
    /\ InitCommon

NextConcurrent ==
    \/ \E h \in Handlers, e \in GroupEvents, n \in 0..MaxImages, u \in BOOLEAN :
           PicGen(h, e, n, u, TRUE)
    \/ \E h \in Handlers, e \in GroupEvents, n \in 0..MaxImages :
           FigureTransform(h, e, n, TRUE)
    \/ \E h \in Handlers, raised \in BOOLEAN : GlobalGetReturn(h, raised)
    \/ \E h \in Handlers, ok \in BOOLEAN : ConvertReturn(h, ok)
    \/ \E h \in Handlers, out \in ImageOutcomes : GenerateReturn(h, out)
    \/ \E h \in Handlers : Finish(h)
    \/ ResetImagesCommand(TRUE)
    \/ Tick

SpecConcurrent == InitConcurrent /\ [][NextConcurrent]_vars

(***************************************************************************)
(* The switch commands and the draws that load the global config, with     *)
(* limiting off; one invocation at a time in SpecSwitch, and as many in    *)
(* flight as there are slots in SpecSwitchConcurrent.                      *)
(***************************************************************************)
StoreChoices == {EmptyDict, StoredSettings, ("model_name" :> "other-model")}

InitSwitch ==
    /\ rate_limit_config = ("enabled" :> FALSE)
    /\ nap_server_address = None
    /\ callback_api_base = None
    /\ global_store \in StoreChoices
    /\ dispatch = 1
    /\ InitCommon

InitSwitchConcurrent ==
    /\ rate_limit_config = ("enabled" :> FALSE)
    /\ nap_server_address = None
    /\ callback_api_base = None
    /\ global_store \in StoreChoices
    /\ dispatch = Cardinality(Handlers)
    /\ InitCommon

NextSwitch ==
    \/ \E h \in Handlers, new \in NewBaseUrls, flag \in SaveFlags :
           SwitchBaseUrl(h, new, flag)
    \/ \E h \in Handlers, new \in NewModels, flag \in SaveFlags :
           SwitchModel(h, new, flag)
    \/ \E h \in Handlers, raised \in BOOLEAN : SwitchLoadReturn(h, raised)
    \/ \E h \in Handlers, raised \in BOOLEAN : StoreGetReturn(h, raised)
    \/ \E h \in Handlers, raised \in BOOLEAN : StorePutReturn(h, raised)
    \/ \E h \in Handlers, e \in GroupEvents : PicGen(h, e, 0, FALSE, TRUE)
    \/ \E h \in Handlers, raised \in BOOLEAN : GlobalGetReturn(h, raised)
    \/ \E h \in Handlers, out \in ImageOutcomes : GenerateReturn(h, out)
    \/ \E h \in Handlers : Finish(h)

SpecSwitch == InitSwitch /\ [][NextSwitch]_vars

SpecSwitchConcurrent == InitSwitchConcurrent /\ [][NextSwitch]_vars

(***************************************************************************)
(* Properties of the limiter, checked under SpecLimiter.                   *)
(***************************************************************************)

\* The configuration, read without the limiter's own operators.
LimitingOn == "enabled" \in DOMAIN rate_limit_config /\ rate_limit_config["enabled"]

ConfiguredInterval ==
    IF "reset_interval_minutes" \in DOMAIN rate_limit_config
    THEN rate_limit_config["reset_interval_minutes"] ELSE DefaultResetInterval

ConfiguredDefault ==
    IF "default_limit" \in DOMAIN rate_limit_config
    THEN rate_limit_config["default_limit"] ELSE DefaultLimit

EntriesOf(listKey, idKey, id) ==
    IF listKey \in DOMAIN rate_limit_config
    THEN {i \in 1..Len(rate_limit_config[listKey]) :
              rate_limit_config[listKey][i][idKey] = id}
    ELSE {}

\* The limit of the first entry of the list for id.
EntryLimit(listKey, idKey, id) ==
    LET hits == EntriesOf(listKey, idKey, id)
        first == CHOOSE i \in hits : \A j \in hits : i <= j
        entry == rate_limit_config[listKey][first]
    IN IF "limit" \in DOMAIN entry THEN entry.limit ELSE ConfiguredDefault

HasUserEntry(e) == EntriesOf("user_limits", "user_id", e.sender_id) # {}

HasGroupEntry(e) ==
    e.group_id # PrivateChat /\ EntriesOf("group_limits", "group_id", e.group_id) # {}

\* A step that is one call of _check_and_update_limit.
IsCheckStep == ncalls' # ncalls

\* C1: for a sender with a per-user limit N >= 1, from empty records, with
\* limiting on, no reset window elapsed and no admin reset, the sender's Nth
\* call is permitted and the (N+1)th is denied with a message citing N,
\* in private chat or in a group, whatever other senders do in between.
C1_NthPermittedNextDenied ==
    LET e == last.event
        N == EntryLimit("user_limits", "user_id", e.sender_id)
    IN (/\ last.op = "check"      \* no admin reset since the first call
        /\ LimitingOn
        /\ HasUserEntry(e)
        /\ N >= 1
        /\ now <= ConfiguredInterval * SecondsPerMinute)
       => /\ ncalls[e.sender_id] = N => last.can_draw
          /\ ncalls[e.sender_id] = N + 1 =>
                 ~last.can_draw /\ last.message = DeniedMessage(N)

\* C2: a check discards the stored count and starts from 0 exactly when the
\* minutes elapsed since the record's timestamp are strictly greater than
\* reset_interval_minutes; then a permitted check stores count 1 with the
\* current timestamp; otherwise the stored count goes into the limit check
\* unchanged.
C2_ResetExactlyWhenExpired ==
    [][(IsCheckStep /\ last'.limit_type # None
            /\ RecordKey(last'.event) \in DOMAIN usage_records)
       => LET key == RecordKey(last'.event)
              stored == usage_records[key]
              elapsedSeconds == now - stored.timestamp
          IN IF elapsedSeconds > ConfiguredInterval * SecondsPerMinute
             THEN /\ last'.can_draw <=> 0 < last'.limit
                  /\ last'.can_draw =>
                         usage_records'[key] = [timestamp |-> now, count |-> 1]
             ELSE /\ last'.can_draw <=> stored.count < last'.limit
                  /\ last'.can_draw =>
                         usage_records'[key] =
                             [timestamp |-> now, count |-> stored.count + 1]
                  /\ ~last'.can_draw => usage_records'[key] = stored]_vars

\* u1 alone has called, three times and only in private chat, no admin reset
\* has run, and the last call was permitted and left count 1 stamped now:
\* an earlier permitted draw was discarded because its window had expired.
C2_Witness ==
    /\ last.op = "check" /\ last.can_draw /\ last.limit_type = "user"
    /\ last.event = [sender_id |-> "u1", group_id |-> PrivateChat]
    /\ ncalls["u1"] = 3 /\ ncalls["u2"] = 0
    /\ DOMAIN usage_records = {"user_u1"}
    /\ usage_records["user_u1"] = [timestamp |-> now, count |-> 1]

\* C3: when the sender has an entry in user_limits, that per-user limit is
\* the one applied, also when the event's group has an entry in group_limits;
\* the group limit is applied only when the sender has no per-user entry.
C3_UserLimitTakesPrecedence ==
    (last.op # "none" /\ LimitingOn)
    => LET e == last.event IN
       /\ HasUserEntry(e) =>
              /\ last.limit_type = "user"
              /\ last.limit = EntryLimit("user_limits", "user_id", e.sender_id)
              /\ ~last.can_draw => last.message = DeniedMessage(last.limit)
       /\ last.limit_type = "group" =>
              /\ ~HasUserEntry(e)
              /\ HasGroupEntry(e)
              /\ last.limit = EntryLimit("group_limits", "group_id", e.group_id)
       /\ (~HasUserEntry(e) /\ HasGroupEntry(e)) => last.limit_type = "group"

\* A sender with a per-user entry was checked in a group whose entry gives
\* another limit.
C3_Witness ==
    /\ last.op = "check" /\ LimitingOn
    /\ HasUserEntry(last.event) /\ HasGroupEntry(last.event)
    /\ EntryLimit("user_limits", "user_id", last.event.sender_id)
           # EntryLimit("group_limits", "group_id", last.event.group_id)
    /\ last.limit_type = "user"

\* C4 as stated: after reset_images_command the records are empty and the
\* next check of any user who was at their limit before the reset is
\* permitted.
C4_ResetEmptiesAndPermits ==
    [][last'.op = "reset"
       => /\ usage_records' = EmptyDict
          /\ \A e \in Events :
                 ~Check(rate_limit_config, usage_records, e, now).can_draw
                 => Check(rate_limit_config, usage_records', e, now').can_draw]_vars

\* C4 amended: after reset_images_command the records are empty, and a check
\* made while they are still empty is permitted for any user who was at a
\* limit of at least 1 before the reset.
C4_ResetEmptiesAndPermitsPositiveLimit ==
    [][last'.op = "reset"
       => /\ usage_records' = EmptyDict
          /\ \A e \in Events :
                 (/\ ~Check(rate_limit_config, usage_records, e, now).can_draw
                  /\ ResolveLimit(rate_limit_config, e).limit >= 1)
                 => Check(rate_limit_config, usage_records', e, now').can_draw]_vars

\* The latest check was denied at a limit of at least 1, and the reset has
\* run since.
C4_Witness ==
    /\ last.op = "reset" /\ ~last.can_draw /\ last.limit >= 1
    /\ usage_records = EmptyDict

\* C5: with limiting off, or with no user_limits entry for the sender and no
\* group_limits entry for the event's group, every check is permitted with
\* an empty message, changes no record and does not write the file.
Unrestricted(e) == ~LimitingOn \/ (~HasUserEntry(e) /\ ~HasGroupEntry(e))

C5_UnlimitedChecksChangeNothing ==
    [][(IsCheckStep /\ Unrestricted(last'.event))
       => /\ last'.can_draw
          /\ last'.message = EmptyMessage
          /\ ~last'.saved
          /\ usage_records' = usage_records
          /\ file' = file]_vars

\* An unrestricted sender's MaxCalls-th check.
C5_Witness ==
    /\ last.op = "check" /\ Unrestricted(last.event)
    /\ ncalls[last.event.sender_id] = MaxCalls
    /\ last.can_draw /\ last.message = EmptyMessage

(***************************************************************************)
(* Properties of concurrent invocations, checked under SpecConcurrent.     *)
(***************************************************************************)

InFlight(h) == inv[h].pc \in {"global_get", "convert", "generate"}

\* C6: with several invocations in flight, interleaved at their awaits, the
\* check-and-increment is atomic: the stored count of a record equals the
\* number of checks permitted in its current window (no increment is lost),
\* and when every check of the window applied the same limit L, that number
\* is at most L.
C6_AtomicCheckAndIncrement ==
    \A key \in DOMAIN window :
        /\ window[key].permitted =
               IF key \in DOMAIN usage_records THEN usage_records[key].count ELSE 0
        /\ \A L \in window[key].limits :
               window[key].limits = {L} => window[key].permitted <= L

\* An invocation was denied while another one, permitted before it, is still
\* awaiting; every check of the window applied the limit MaxLimit and
\* MaxLimit of them were permitted.
C6_Witness ==
    /\ "group_g1" \in DOMAIN window
    /\ window["group_g1"] = [permitted |-> MaxLimit, limits |-> {MaxLimit}]
    /\ InFlight(1)
    /\ inv[2].pc = "done"
    /\ inv[2].replies = <<PlainResult(DeniedMessage(MaxLimit))>>

(***************************************************************************)
(* Properties of one invocation, checked under SpecHandlers.               *)
(***************************************************************************)

\* The generation collaborator returned, with an image or without one.
GaveImage(r) ==
    /\ r.gen.state = "returned"
    /\ r.gen.url \notin {None, ""} /\ r.gen.path \notin {None, ""}

GaveNothing(r) ==
    /\ r.gen.state = "returned"
    /\ (r.gen.url \in {None, ""} \/ r.gen.path \in {None, ""})

\* The Image components of a reply.
ImagesOf(reply) == {reply.chain[i] : i \in {j \in DOMAIN reply.chain :
                                               reply.chain[j].comp = "Image"}}

\* C7: every invocation of pic_gen or figure_transform ends having yielded
\* exactly one reply and without raising, whatever the collaborators do; it
\* yields nothing before its end.
C7_OneReplyNoRaise ==
    \A h \in Handlers :
        /\ ~inv[h].raised
        /\ inv[h].pc = "done" => Len(inv[h].replies) = 1
        /\ inv[h].pc # "done" => Len(inv[h].replies) = 0

\* An invocation ended with one reply after send_file returned and the
\* callback-URL conversion raised.
C7_Witness ==
    \E h \in Handlers :
        /\ inv[h].pc = "done" /\ Len(inv[h].replies) = 1
        /\ inv[h].send_file_calls = 1
        /\ inv[h].link = "ValueError"

\* C8: when generate_image_openrouter returns an empty URL or an empty path,
\* the handler yields a plain failure message and stops: no send_file, no
\* send_image_with_callback_api, no chain.
C8_EmptyResultStops ==
    \A h \in Handlers :
        GaveNothing(inv[h])
        => /\ inv[h].pc = "done"
           /\ inv[h].replies = <<PlainResult(FailText(inv[h].kind))>>
           /\ inv[h].send_file_calls = 0
           /\ inv[h].delivered = None
           /\ inv[h].link = "none"

\* Generation returned a URL without a path where a nap server is
\* configured, and the invocation is over.
C8_Witness ==
    \E h \in Handlers :
        /\ inv[h].gen = [state |-> "returned", url |-> ImageUrl, path |-> None]
        /\ nap_server_address = "192.168.1.2"
        /\ inv[h].pc = "done"

\* C9: once generation has given an image, send_file is called exactly when
\* nap_server_address is set (neither None nor empty) and differs from
\* "localhost", and it is called in no other case; when it is unset or
\* "localhost" the path handed to send_image_with_callback_api is the local
\* path generation returned.
NapIsRemote == nap_server_address \notin {None, "", "localhost"}

C9_SendFileOnlyToRemoteNap ==
    \A h \in Handlers :
        /\ inv[h].send_file_calls > 0 => NapIsRemote /\ GaveImage(inv[h])
        /\ GaveImage(inv[h]) => (inv[h].send_file_calls = 1 <=> NapIsRemote)
        /\ (GaveImage(inv[h]) /\ ~NapIsRemote) =>
               /\ inv[h].delivered = inv[h].gen.path
               /\ inv[h].image_path = inv[h].gen.path

\* With nap_server_address "localhost" an image was delivered from the local
\* path without a file transfer.
C9_Witness ==
    \E h \in Handlers :
        /\ nap_server_address = "localhost"
        /\ GaveImage(inv[h]) /\ inv[h].pc = "done"
        /\ inv[h].send_file_calls = 0
        /\ inv[h].delivered = LocalPath

\* C10: send_image_with_callback_api returns a URL image only when
\* callback_api_base is configured and the conversion succeeded; otherwise
\* (not configured, or the conversion raised an I/O error, a network error or
\* anything else) it returns the local-file image of the same path, and the
\* failure does not reach its caller.
C10_CallbackFallsBackToFile ==
    \A h \in Handlers :
        (inv[h].delivered # None /\ inv[h].pc = "done")
        => LET r == inv[h]
               configured == callback_api_base \notin {None, ""}
           IN /\ r.failed_at # "web_link"
              /\ Len(r.replies) = 1 /\ r.replies[1].type = "chain"
              /\ ~configured => r.link = "none"
              /\ configured => r.link # "none"
              /\ ImagesOf(r.replies[1]) =
                     IF configured /\ r.link = "ok"
                     THEN {URLImage(r.delivered)}
                     ELSE {FileImage(r.delivered)}

\* The conversion raised ConnectionError for a file that had been sent to the
\* nap server, and the reply carries the file image of that path.
C10_Witness ==
    \E h \in Handlers :
        /\ inv[h].pc = "done" /\ inv[h].link = "ConnectionError"
        /\ inv[h].delivered = RemotePath(LocalPath)
        /\ ImagesOf(inv[h].replies[1]) = {FileImage(RemotePath(LocalPath))}

(***************************************************************************)
(* Persistence of the usage records.                                       *)
(***************************************************************************)

\* C11: while every write succeeds, the record file holds the in-memory
\* usage_records map whenever control is outside _check_and_update_limit and
\* reset_images_command, also with invocations suspended at their awaits:
\* each permitted check and each admin reset writes the whole map before it
\* returns.  Before the first such operation there is no file and the map is
\* empty.
C11_FileEqualsMemory ==
    /\ file.state \in {"absent", "written"}
    /\ file.state = "absent" => usage_records = << >>
    /\ file.state = "written" => file.content = usage_records
    /\ \A key \in DOMAIN window :
           window[key].permitted > 0 =>
               /\ file.state = "written"
               /\ key \in DOMAIN file.content
               /\ file.content[key].count = window[key].permitted

\* Two permitted draws of the group are on file while an invocation is still
\* awaiting its collaborators.
C11_Witness ==
    /\ file.state = "written"
    /\ "group_g1" \in DOMAIN file.content
    /\ file.content["group_g1"].count = MaxLimit
    /\ file.content = usage_records
    /\ \E h \in Handlers : InFlight(h)

\* The record the limit is applied to, from the in-memory map alone: the
\* stored count, or 0 for a key without a record or with an expired one.
CountInMemory(key) ==
    IF key \in DOMAIN usage_records
          /\ now - usage_records[key].timestamp
                 <= ConfiguredInterval * SecondsPerMinute
    THEN usage_records[key].count ELSE 0

\* The key of the event's usage record.
KeyOf(e) ==
    IF e.group_id # PrivateChat THEN "group_" \o e.group_id
    ELSE "user_" \o e.sender_id

\* The step left the file without the map the operation ended with.
WriteFailed == file' # [state |-> "written", content |-> usage_records']

\* A step that is one run of reset_images_command.
IsResetStep == ncalls' = ncalls /\ now' = now

\* C12: a failed write of the record file changes nothing in the outcome of
\* the operation: the check is still permitted with its remaining-count
\* message and the in-memory count stays incremented, the in-memory map is
\* empty after a reset, and every check, also after failed writes, is decided
\* from the in-memory records.
C12_WriteFailureKeepsOutcome ==
    [][/\ (IsCheckStep /\ last'.limit_type # None)
          => LET e == last'.event
                 count == CountInMemory(KeyOf(e))
             IN /\ last'.can_draw <=> count < last'.limit
                /\ last'.can_draw =>
                       /\ last'.saved
                       /\ KeyOf(e) \in DOMAIN usage_records'
                       /\ usage_records'[KeyOf(e)] =
                              [timestamp |-> now, count |-> count + 1]
                       /\ last'.message.n = last'.limit - (count + 1)
                       /\ last'.message.kind \in {"user_ok", "group_ok"}
                /\ ~last'.can_draw => usage_records' = usage_records
       /\ (IsResetStep /\ WriteFailed) => usage_records' = << >>]_vars

\* No write ever reached the file, MaxLimit draws of the group were permitted
\* and counted in memory, and the latest check was denied on that count.
C12_Witness ==
    /\ file.state = "absent"
    /\ "group_g1" \in DOMAIN usage_records
    /\ usage_records["group_g1"].count = MaxLimit
    /\ ~last.can_draw /\ last.limit = MaxLimit
    /\ last.event.group_id = "g1"

(***************************************************************************)
(* More properties of the limiter, checked under SpecLimiter.              *)
(***************************************************************************)

\* C13: the counter a check reads and increments is the one of group_<gid>
\* for every event with a group id and the one of user_<uid> only for an
\* event without one, whether the applied limit is a per-user or a per-group
\* limit; no other record is touched.
C13_RecordKeyedByGroup ==
    [][(IsCheckStep /\ last'.limit_type # None)
       => LET e == last'.event
              key == IF e.group_id # PrivateChat THEN "group_" \o e.group_id
                     ELSE "user_" \o e.sender_id
          IN /\ last'.limit_type = "group" => e.group_id # PrivateChat
             /\ last'.can_draw <=> CountInMemory(key) < last'.limit
             /\ last'.can_draw =>
                    /\ key \in DOMAIN usage_records'
                    /\ usage_records'[key].count = CountInMemory(key) + 1
             /\ DOMAIN usage_records' \ {key} = DOMAIN usage_records \ {key}
             /\ \A k \in DOMAIN usage_records \ {key} :
                    usage_records'[k] = usage_records[k]]_vars

\* A check that applied a per-user limit to an event of group g1 was
\* permitted and counted on group_g1, the only record there is.
C13_Witness ==
    /\ last.op = "check" /\ last.limit_type = "user" /\ last.can_draw
    /\ last.event.group_id = "g1"
    /\ DOMAIN usage_records = {"group_g1"}
    /\ usage_records["group_g1"].count = MaxLimit

\* C17: a denied check changes neither the usage records nor the file, so a
\* record's timestamp is always the time of the last permitted draw on its
\* key; a check that applies a limit of at least 1 more than
\* reset_interval_minutes after that time is permitted, whatever was denied
\* in between.
C17_DeniedCheckChangesNothing ==
    [][/\ (IsCheckStep /\ ~last'.can_draw)
          => usage_records' = usage_records /\ file' = file
       /\ \A k \in DOMAIN usage_records' :
              (k \notin DOMAIN usage_records \/ usage_records'[k] # usage_records[k])
              => /\ IsCheckStep /\ last'.can_draw
                 /\ k = KeyOf(last'.event)
                 /\ usage_records'[k].timestamp = now
       /\ (/\ IsCheckStep /\ last'.limit_type # None /\ last'.limit >= 1
           /\ KeyOf(last'.event) \in DOMAIN usage_records
           /\ now - usage_records[KeyOf(last'.event)].timestamp
                  > ConfiguredInterval * SecondsPerMinute)
          => /\ last'.can_draw
             /\ usage_records'[KeyOf(last'.event)] =
                    [timestamp |-> now, count |-> 1]]_vars

\* u1, limited to one draw, drew, was denied within the window and was
\* permitted again by the third check, made after the window had passed.
C17_Witness ==
    /\ last.op = "check" /\ last.can_draw /\ last.limit = 1
    /\ ncalls["u1"] = 3 /\ ncalls["u2"] = 0
    /\ DOMAIN usage_records = {"user_u1"}
    /\ usage_records["user_u1"] = [timestamp |-> now, count |-> 1]
    /\ now > ConfiguredInterval * SecondsPerMinute

\* C20: from empty records, every stored record has a count of at least 1,
\* and a record is written only by a permitted check of its key, which
\* leaves a count of at most the limit it applied; so the remaining count it
\* reports, limit minus the new count, is never negative -- through denied
\* checks, window expiries and admin resets alike.
C20_CountBetweenOneAndLimit ==
    [][/\ \A k \in DOMAIN usage_records' : usage_records'[k].count >= 1
       /\ \A k \in DOMAIN usage_records' :
              (k \notin DOMAIN usage_records \/ usage_records'[k] # usage_records[k])
              => /\ IsCheckStep /\ last'.can_draw /\ last'.limit_type # None
                 /\ usage_records'[k].count <= last'.limit
                 /\ last'.message.n = last'.limit - usage_records'[k].count
       /\ (IsCheckStep /\ last'.can_draw /\ last'.limit_type # None)
          => /\ last'.message.n >= 0
             /\ last'.message.n < last'.limit]_vars

\* After an admin reset a record was filled up to its limit again: the
\* permitted check reported no draw left.
C20_Witness ==
    /\ last.op = "recheck" /\ last.can_draw
    /\ last.limit = MaxLimit /\ last.message.n = 0
    /\ KeyOf(last.event) \in DOMAIN usage_records
    /\ usage_records[KeyOf(last.event)].count = MaxLimit

(***************************************************************************)
(* More properties of one invocation, checked under SpecHandlers.          *)
(***************************************************************************)

\* The invocation's limit check denied the draw.
Denied(r) == r.message.kind = "denied"

\* The invocation has called generate_image_openrouter.
CalledGenerate(r) ==
    r.pc \in {"generate", "send_file", "web_link"} \/ r.gen.state # "none"

\* C14: figure_transform calls generate_image_openrouter only with at least
\* one converted reference image; a permitted figure_transform that got none
\* (nothing attached or quoted, or every convert_to_base64 failed) replies
\* with the request for an image and makes no generation, file-transfer or
\* delivery step.
C14_FigureTransformNeedsImage ==
    \A h \in Handlers :
        inv[h].kind = "figure_transform"
        => /\ CalledGenerate(inv[h]) => inv[h].input_images >= 1
           /\ (inv[h].pc = "done" /\ ~Denied(inv[h]) /\ inv[h].input_images = 0)
              => /\ inv[h].replies = <<PlainResult(NeedImageText)>>
                 /\ inv[h].gen.state = "none"
                 /\ inv[h].send_file_calls = 0
                 /\ inv[h].delivered = None
                 /\ inv[h].link = "none"

\* A permitted figure_transform ended with the request for an image where a
\* nap server and a callback base are configured.
C14_Witness ==
    \E h \in Handlers :
        /\ inv[h].kind = "figure_transform" /\ inv[h].pc = "done"
        /\ inv[h].message.kind = "user_ok"
        /\ inv[h].input_images = 0
        /\ inv[h].replies = <<PlainResult(NeedImageText)>>
        /\ nap_server_address = "192.168.1.2"

\* C16: an invocation whose limit check denied the draw yields the denial
\* message alone and is over in the step of the check: it does not load the
\* global config, convert an image, call generate_image_openrouter or
\* send_file, or deliver anything.  Checked under SpecConcurrent, where a
\* draw can be denied before the global config has been loaded.
C16_DenialStopsHandler ==
    [][\A h \in Handlers :
           Denied(inv'[h])
           => /\ inv'[h].pc = "done"
              /\ inv'[h].replies = <<PlainResult(inv'[h].message)>>
              /\ inv'[h].message.n = EntryLimit("user_limits", "user_id", "u1")
                     \/ inv'[h].message.n
                            = EntryLimit("group_limits", "group_id", "g1")
              /\ inv'[h].input_images = 0
              /\ inv'[h].gen.state = "none"
              /\ inv'[h].send_file_calls = 0
              /\ inv'[h].delivered = None
              /\ inv'[h].link = "none"
              /\ inv'[h].failed_at = ""
              /\ ~Denied(inv[h]) =>
                     /\ inv[h].pc = "idle"
                     /\ global_config_loaded' = global_config_loaded
                     /\ custom_api_base' = custom_api_base
                     /\ model_name' = model_name]_vars

\* A figure_transform with an image attached was denied before the global
\* config was ever loaded.
C16_Witness ==
    \E h \in Handlers :
        /\ inv[h].kind = "figure_transform" /\ Denied(inv[h])
        /\ inv[h].pending = MaxImages
        /\ inv[h].pc = "done"
        /\ ~global_config_loaded

\* The invocation passed a limit check that counted the draw.
Counted(r) == r.message.kind \in {"user_ok", "group_ok"}

\* The invocation ended without an image in its reply.
EndedWithoutImage(r) ==
    /\ r.pc = "done"
    /\ Len(r.replies) = 1 /\ ImagesOf(r.replies[1]) = {}

\* C18: the draw is counted by the limit check and never given back: every
\* step an invocation takes after its check (generation returning empty or
\* raising, send_file raising, delivery) leaves the records and the file
\* unchanged, a permitted figure_transform without a reference image is
\* counted like any other, and the count of a record equals the number of
\* permitted checks of its window, not the number of images delivered.
C18_QuotaNotRefunded ==
    [][/\ \A h \in Handlers :
              /\ (inv[h].pc # "idle" /\ inv'[h] # inv[h])
                 => usage_records' = usage_records /\ file' = file
              /\ (inv[h].pc = "idle" /\ Counted(inv'[h]))
                 => \E key \in DOMAIN usage_records' :
                        usage_records'[key].count = CountInMemory(key) + 1
       /\ \A key \in DOMAIN usage_records' :
              /\ key \in DOMAIN window'
              /\ usage_records'[key].count = window'[key].permitted]_vars

\* u1's counted draw ended in the error reply after send_file raised, and
\* the record still holds it.
C18_Witness ==
    \E h \in Handlers :
        /\ Counted(inv[h]) /\ EndedWithoutImage(inv[h])
        /\ inv[h].failed_at = "send_file"
        /\ "user_u1" \in DOMAIN usage_records
        /\ usage_records["user_u1"].count = 1

(***************************************************************************)
(* Properties of the switch commands.                                      *)
(***************************************************************************)
SettingKeys == {"custom_api_base", "model_name"}

\* The in-memory field of a key.
Field(key) == IF key = "custom_api_base" THEN custom_api_base ELSE model_name

\* The field as the step leaves it.
FieldAfter(key) ==
    IF key = "custom_api_base" THEN custom_api_base' ELSE model_name'

\* The switch command that takes this step in slot h, if one does.
SwitchStep(h) ==
    /\ inv'[h] # inv[h]
    /\ (IF inv[h].pc = "idle" THEN inv'[h].kind ELSE inv[h].kind) \in SwitchKinds

TheSwitch(h) == IF inv[h].pc = "idle" THEN inv'[h] ELSE inv[h]

\* The entries of the store under the keys other than key.
OtherEntries(store, key) ==
    [k \in DOMAIN store \ {key} |-> store[k]]

\* The command's last reply says the value was saved.
SaidSaved(r) ==
    /\ Len(r.replies) = 1
    /\ r.replies[1] = [type |-> "plain", chain |-> << >>,
                       text |-> [kind |-> r.kind \o "_saved", n |-> 0,
                                 uid |-> ""]]

\* C15 as stated, for every step of a switch command run on its own: without
\* a new value neither its field nor the store changes; with a new value and
\* no save flag only its field changes, to the new value, and the store is
\* not written; with a new value and a truthy save flag its field changes
\* and the command ends with the same value under its key in the store, the
\* other key of the store unchanged.
C15_SwitchFrame ==
    [][\A h \in Handlers :
           SwitchStep(h)
           => LET r == TheSwitch(h)
                  key == SettingKey(r.kind)
              IN /\ ~Truthy(r.arg)
                    => FieldAfter(key) = Field(key) /\ global_store' = global_store
                 /\ (Truthy(r.arg) /\ ~r.save)
                    => /\ global_store' = global_store
                       /\ \A f \in SettingKeys \ {key} : FieldAfter(f) = Field(f)
                       /\ inv'[h].pc = "done" => FieldAfter(key) = Strip(r.arg)
                 /\ (Truthy(r.arg) /\ r.save)
                    => /\ inv'[h].pc = "done"
                          => /\ FieldAfter(key) = Strip(r.arg)
                             /\ key \in DOMAIN global_store'
                             /\ global_store'[key] = Strip(r.arg)
                       /\ OtherEntries(global_store', key)
                              = OtherEntries(global_store, key)]_vars

\* C15 amended: the step in which the command's own _load_global_config
\* completes may copy the store's values into both fields; apart from that,
\* a field changes only by the assignment of a command called with a new
\* value, to that value stripped; the store changes only when a command
\* called with a new value and a truthy flag has its global_put return, and
\* then the value is under its key and every other entry is as it was; when
\* global_get or global_put raises, the field keeps the new value.
C15_SwitchFrameAfterLoad ==
    [][\A h \in Handlers :
           SwitchStep(h)
           => LET r == TheSwitch(h)
                  key == SettingKey(r.kind)
                  loads == inv[h].pc = "switch_load"
                  assigns == Truthy(r.arg) /\ inv[h].pc \in {"idle", "switch_load"}
                                /\ inv'[h].pc # "switch_load"
              IN /\ \A f \in SettingKeys :
                        FieldAfter(f) # Field(f)
                        => \/ f = key /\ assigns /\ FieldAfter(f) = Strip(r.arg)
                           \/ /\ loads /\ f \in DOMAIN global_store
                              /\ FieldAfter(f) = global_store[f]
                 /\ assigns => FieldAfter(key) = Strip(r.arg)
                 /\ (Truthy(r.arg) /\ inv'[h].pc \in {"store_get", "store_put", "done"})
                    => FieldAfter(key) = Strip(r.arg)
                 /\ global_store' # global_store
                    => /\ Truthy(r.arg) /\ r.save
                       /\ inv[h].pc = "store_put" /\ SaidSaved(inv'[h])
                 /\ (inv[h].pc = "store_put" /\ SaidSaved(inv'[h]))
                    => /\ key \in DOMAIN global_store'
                       /\ global_store'[key] = Strip(r.arg)
                       /\ OtherEntries(global_store', key)
                              = OtherEntries(global_store, key)
                 /\ (inv'[h].pc = "done" /\ Truthy(r.arg) /\ r.save
                         /\ inv[h].pc # "done")
                    => inv[h].pc \in {"store_get", "store_put"}]_vars

\* switch_model saved its value: the store holds the new model name next to
\* the base URL it held before, and the base URL field holds the value
\* loaded from the store.
C15_Witness ==
    \E h \in Handlers :
        /\ inv[h].kind = "switch_model" /\ inv[h].pc = "done"
        /\ SaidSaved(inv[h])
        /\ global_store = ("custom_api_base" :> "https://proxy/v1")
                              @@ ("model_name" :> "alt-model")
        /\ model_name = "alt-model"
        /\ custom_api_base = "https://proxy/v1"

(***************************************************************************)
(* The load of the global config under interleaving, checked under         *)
(* SpecSwitchConcurrent.                                                   *)
(***************************************************************************)

\* C19: once a switch command has assigned custom_api_base (or model_name),
\* the field changes only in a step of a switch command for that field: no
\* later load of the global store overwrites it, also with several
\* invocations suspended in _load_global_config at once.
C19_LoadsStoreAtMostOnce ==
    [][\A f \in switched :
           FieldAfter(f) # Field(f)
           => \E h \in Handlers :
                  SwitchStep(h) /\ SettingKey(TheSwitch(h).kind) = f]_vars

====
